---- MODULE Spec2Model ----
(***************************************************************************)
(* EVAllocator (tensorflow/core/framework/ev_allocator.cc): an allocator   *)
(* that delegates to port::AlignedMalloc / port::AlignedFree, keeps        *)
(* AllocatorStats under a mutex and logs capped warnings.                  *)
(*                                                                         *)
(* Threads call AllocateRaw, DeallocateRaw, GetStats and ClearStats on     *)
(* the allocators made by EVAllocatorFactory.  Every access of a method to *)
(* shared memory is one step: the atomic load and the atomic increment of  *)
(* single_allocation_warning_count_ are two steps, the call of the         *)
(* primitive is a step, the acquisition of mu_ is a step, and the body of  *)
(* a critical section is a step that ends with the release of mu_.         *)
(*                                                                         *)
(* ev_allocator_collect_stats is a static bool that this file only reads;  *)
(* in Spec, SpecOne and SpecWarn a run starts with either value and keeps  *)
(* it.                                                                     *)
(*                                                                         *)
(* Spec is the factory with up to MaxInstances allocators and short runs;  *)
(* SpecOne is one allocator and runs long enough to pass the cap of 5      *)
(* single-allocation warnings; SpecWarn is one allocator and AllocateRaw   *)
(* only, for still longer runs.  SpecEnv is one allocator whose            *)
(* environment moves: the configuration mechanism switches the flag        *)
(* between calls and the available memory changes.  SpecLive is SpecEnv    *)
(* under fair scheduling.                                                  *)
(***************************************************************************)
EXTENDS Integers, Sequences, FiniteSets, TLC

\* ---------------------------------------------------------------- bounds
NumThreads == 2
MaxInstances == 2
NumBlocks == 2
MaxBytes == 3
MaxAllocCalls == 2
MaxLongCalls == 6
MaxWarnCalls == 8
RamBytes == 12

\* ------------------------------------------------------- program constants
kMaxTotalAllocationWarnings == 1
kMaxSingleAllocationWarnings == 5
\* kTotalAllocationWarningThreshold = 0.5 and kLargeAllocationWarningThreshold
\* = 0.1, written as tenths because the fractions are multiplied into an
\* integer by static_cast<int64>.
kTotalAllocationWarningThresholdTenths == 5
kLargeAllocationWarningThresholdTenths == 1
\* alignment = 8;
kFixedAlignment == 8

Threads == 1..NumThreads
Instances == 1..MaxInstances
NULL == 0
\* the addresses the primitive can hand out: multiples of 8
Addrs == {8 * k : k \in 1..NumBlocks}
Sizes == {1, MaxBytes}
Alignments == {1, 8, 16, 32}
NumaNodes == {3, 7}
\* the num_bytes a caller can pass to EVSubAllocator::Free
Hints == {0} \cup Sizes

VARIABLES
  ev_allocator_collect_stats,        \* static bool
  available_ram,                     \* what port::AvailableRam() reports
  large_value,                       \* static local of LargeAllocationWarningBytes
  total_value,                       \* static local of TotalAllocationWarningBytes
  handles,                           \* objects handed out by the factory
  stats_,                            \* per instance: AllocatorStats
  single_allocation_warning_count_,  \* per instance: std::atomic<int>
  total_allocation_warning_count_,   \* per instance: int GUARDED_BY(mu_)
  mu_,                               \* per instance: 0 = free, else the holder
  heap,                              \* the primitive: address -> block size, 0 = free
  live,                              \* address -> instance that returned it, 0 = none
  call,                              \* per thread: the frame of the call in progress
  single_logged,                     \* per instance: single-allocation warnings logged
  total_logged,                      \* per instance: cumulative warnings logged
  large_calls,                       \* per instance: AllocateRaw calls over the threshold
  ever_above,                        \* per instance: an update left bytes_in_use above the threshold
  cleared,                           \* per instance: {bytes_in_use at a ClearStats not yet followed by an update}
  raced,                             \* per instance: a check passed while another call was between check and increment
  alloc_calls,                       \* AllocateRaw calls made so far
  since_clear                        \* per instance: the statistics updates of AllocateRaw since the last ClearStats

vars == <<ev_allocator_collect_stats, available_ram, large_value, total_value,
          handles, stats_, single_allocation_warning_count_,
          total_allocation_warning_count_, mu_, heap, live, call,
          single_logged, total_logged, large_calls, ever_above, cleared,
          raced, alloc_calls, since_clear>>

\* --------------------------------------------------------------- helpers
Max(a, b) == IF a >= b THEN a ELSE b

ZeroStats == [num_allocs |-> 0, bytes_in_use |-> 0,
              peak_bytes_in_use |-> 0, largest_alloc_size |-> 0]

NoClear == {}

NoUpdates == [count |-> 0, largest |-> 0]

Idle == [pc |-> "idle", via |-> 0, this |-> 0, requested |-> 0,
         alignment |-> 0, num_bytes |-> 0, p |-> NULL, alloc_size |-> 0, prim_calls |-> 0, prim_ret |-> NULL]

NotComputed == [init |-> FALSE, value |-> 0, queries |-> 0]

\* static_cast<int64>(port::AvailableRam() * fraction), fraction in tenths
ThresholdBytes(ram, tenths) == (ram * tenths) \div 10

\* the threshold computed anew by every call
StaticInit_EveryCall(cache, ram, tenths) ==
  [init |-> TRUE, value |-> ThresholdBytes(ram, tenths),
   queries |-> cache.queries + 1]

\* a function-local static: initialised by the first call, which is the only
\* one to call port::AvailableRam() (queries counts these calls), and returned
\* as is by every later call
StaticInit(cache, ram, tenths) ==
  IF cache.init THEN cache
  ELSE [init |-> TRUE, value |-> ThresholdBytes(ram, tenths),
        queries |-> cache.queries + 1]

LargeAllocationWarningBytes(cache, ram) ==
  StaticInit(cache, ram, kLargeAllocationWarningThresholdTenths)

TotalAllocationWarningBytes(cache, ram) ==
  StaticInit(cache, ram, kTotalAllocationWarningThresholdTenths)

\* ------------------------------------------- the primitives of port::
\* the size the primitive reserves for a request: rounded up to its granule
Granule == 2
ActualSize(n) == ((n + Granule - 1) \div Granule) * Granule

\* port::AlignedMalloc(size, alignment): NULL, or a free address that is a
\* multiple of the alignment
AlignedMalloc(h, alignment) ==
  {NULL} \cup {a \in Addrs : h[a] = 0 /\ a % alignment = 0}

\* port::MallocExtension_GetAllocatedSize(p)
GetAllocatedSize(h, ptr) == IF ptr = NULL THEN 0 ELSE h[ptr]

\* ------------------------------------------------------------------ Init
Init ==
  /\ ev_allocator_collect_stats \in BOOLEAN
  /\ available_ram = RamBytes
  /\ large_value = NotComputed
  /\ total_value = NotComputed
  /\ handles = <<>>
  /\ stats_ = [i \in Instances |-> ZeroStats]
  /\ single_allocation_warning_count_ = [i \in Instances |-> 0]
  /\ total_allocation_warning_count_ = [i \in Instances |-> 0]
  /\ mu_ = [i \in Instances |-> 0]
  /\ heap = [a \in Addrs |-> 0]
  /\ live = [a \in Addrs |-> 0]
  /\ call = [t \in Threads |-> Idle]
  /\ single_logged = [i \in Instances |-> 0]
  /\ total_logged = [i \in Instances |-> 0]
  /\ large_calls = [i \in Instances |-> 0]
  /\ ever_above = [i \in Instances |-> FALSE]
  /\ cleared = [i \in Instances |-> NoClear]
  /\ raced = [i \in Instances |-> FALSE]
  /\ alloc_calls = 0
  /\ since_clear = [i \in Instances |-> NoUpdates]

\* ------------------------------------------------ pieces of the methods

\* the counter never compared with the cap
ShouldWarnSingle_NoCap(num_bytes, threshold, count) ==
  num_bytes > threshold

\* the threshold compared with >= instead of >
ShouldWarnSingle_AtThreshold(num_bytes, threshold, count) ==
  num_bytes >= threshold /\ count < kMaxSingleAllocationWarnings

\* the cap compared with <= instead of <
ShouldWarnSingle_OffByOne(num_bytes, threshold, count) ==
  num_bytes > threshold /\ count <= kMaxSingleAllocationWarnings

\* num_bytes > LargeAllocationWarningBytes() &&
\*     single_allocation_warning_count_ < kMaxSingleAllocationWarnings
ShouldWarnSingle(num_bytes, threshold, count) ==
  num_bytes > threshold /\ count < kMaxSingleAllocationWarnings


\* the statistics branch taken whatever the flag says
CollectStats_Always(flag) == TRUE

\* if (ev_allocator_collect_stats)
CollectStats(flag) == flag


\* the requested alignment passed on to the primitive
MallocAlignment_AsRequested(requested) == requested

\* alignment = 8;
MallocAlignment(requested) == kFixedAlignment

\* a call that got NULL from the primitive left out of the statistics
StatsAfterAlloc_SkipNull(s, alloc_size) ==
  IF alloc_size = 0 THEN s
  ELSE [num_allocs |-> s.num_allocs + 1,
        bytes_in_use |-> s.bytes_in_use + alloc_size,
        peak_bytes_in_use |->
          Max(s.peak_bytes_in_use, s.bytes_in_use + alloc_size),
        largest_alloc_size |-> Max(s.largest_alloc_size, alloc_size)]

\* ++stats_.num_allocs; stats_.bytes_in_use += alloc_size; peak and largest
\* raised by std::max
StatsAfterAlloc(s, alloc_size) ==
  [num_allocs |-> s.num_allocs + 1,
   bytes_in_use |-> s.bytes_in_use + alloc_size,
   peak_bytes_in_use |-> Max(s.peak_bytes_in_use, s.bytes_in_use + alloc_size),
   largest_alloc_size |-> Max(s.largest_alloc_size, alloc_size)]


\* the cap compared with <= instead of <
ShouldWarnTotal_OffByOne(bytes_in_use, threshold, count) ==
  bytes_in_use > threshold /\ count <= kMaxTotalAllocationWarnings

\* the threshold compared with >= instead of >
ShouldWarnTotal_AtThreshold(bytes_in_use, threshold, count) ==
  bytes_in_use >= threshold /\ count < kMaxTotalAllocationWarnings

\* stats_.bytes_in_use > TotalAllocationWarningBytes() &&
\*     total_allocation_warning_count_ < kMaxTotalAllocationWarnings
ShouldWarnTotal(bytes_in_use, threshold, count) ==
  bytes_in_use > threshold /\ count < kMaxTotalAllocationWarnings


\* p returned only from inside the statistics branch
AllocateRawResult_StatsOnly(f) == IF f.alloc_size > 0 THEN f.p ELSE NULL

\* return p;
AllocateRawResult(f) == f.p


\* the size taken from the num_bytes that EVSubAllocator::Free was given
FreedSize_FromHint(h, ptr, num_bytes) == num_bytes

\* EVSubAllocator::Free(ptr, num_bytes) calls DeallocateRaw(ptr), and
\* DeallocateRaw asks the primitive: alloc_size = GetAllocatedSize(ptr)
FreedSize(h, ptr, num_bytes) == GetAllocatedSize(h, ptr)


\* alloc_size added to bytes_in_use instead of subtracted
StatsAfterDealloc_Adds(s, alloc_size) ==
  [s EXCEPT !.bytes_in_use = s.bytes_in_use + alloc_size]

\* the decrement left out
StatsAfterDealloc_NoDecrement(s, alloc_size) == s

\* stats_.bytes_in_use -= alloc_size;
StatsAfterDealloc(s, alloc_size) ==
  [s EXCEPT !.bytes_in_use = s.bytes_in_use - alloc_size]


\* the peak reset to 0 like the other two fields
StatsAfterClear_ZeroPeak(s) ==
  [s EXCEPT !.num_allocs = 0, !.peak_bytes_in_use = 0,
            !.largest_alloc_size = 0]

\* the peak left as it was
StatsAfterClear_KeepPeak(s) ==
  [s EXCEPT !.num_allocs = 0, !.largest_alloc_size = 0]

\* ClearStats: num_allocs = 0; peak_bytes_in_use = bytes_in_use;
\* largest_alloc_size = 0
StatsAfterClear(s) ==
  [s EXCEPT !.num_allocs = 0,
            !.peak_bytes_in_use = s.bytes_in_use,
            !.largest_alloc_size = 0]


\* the warning counters reset together with the statistics
WarningCountAfterClear_Reset(count) == 0

\* ClearStats assigns to neither warning counter
WarningCountAfterClear(count) == count


\* one EVAllocator shared by everything the factory makes
NewEVAllocator_Shared(hs) == 1

\* new EVAllocator: an object that did not exist before
NewEVAllocator(hs) == Len(hs) + 1

\* ----------------------------------------------------------- the factory
FactoryFrame == <<ev_allocator_collect_stats, available_ram, large_value,
                  total_value, stats_, mu_, heap, live, call, single_logged,
                  total_logged, large_calls, ever_above, cleared, raced,
                  alloc_calls, since_clear>>

\* EVAllocator(): both warning counters start at 0
Construct(i) ==
  /\ single_allocation_warning_count_' =
       [single_allocation_warning_count_ EXCEPT ![i] = 0]
  /\ total_allocation_warning_count_' =
       [total_allocation_warning_count_ EXCEPT ![i] = 0]

CreateAllocator ==
  /\ Len(handles) < MaxInstances
  /\ LET i == NewEVAllocator(handles) IN
       /\ Construct(i)
       /\ handles' = Append(handles, [sub |-> FALSE, ev |-> i])
  /\ UNCHANGED FactoryFrame

\* the numa_node argument is not used
CreateSubAllocator(numa_node) ==
  /\ Len(handles) < MaxInstances
  /\ LET i == NewEVAllocator(handles) IN
       /\ Construct(i)
       /\ handles' = Append(handles, [sub |-> TRUE, ev |-> i])
  /\ UNCHANGED FactoryFrame

Handles == 1..Len(handles)

\* ------------------------------------------------------------ AllocateRaw
\* entry, and the condition of the first if.  EVSubAllocator::Alloc passes its
\* arguments on unchanged, so a call through a sub-allocator starts here too.
\* requested remembers the alignment the caller passed.
AllocateRawCheck(t, h, alignment, num_bytes, budget) ==
  /\ call[t].pc = "idle"
  /\ alloc_calls < budget
  /\ LET i == handles[h].ev
         lv == LargeAllocationWarningBytes(large_value, available_ram)
         warn == ShouldWarnSingle(num_bytes, lv.value,
                                  single_allocation_warning_count_[i])
     IN /\ large_value' = lv
        /\ call' = [call EXCEPT ![t] =
             [Idle EXCEPT !.pc = IF warn THEN "a_warn" ELSE "a_malloc",
                          !.via = h, !.this = i,
                          !.requested = alignment,
                          !.alignment = alignment,
                          !.num_bytes = num_bytes]]
        /\ large_calls' = [large_calls EXCEPT ![i] =
             IF num_bytes > lv.value THEN @ + 1 ELSE @]
        /\ raced' = [raced EXCEPT ![i] =
             @ \/ (warn /\ \E u \in Threads \ {t} :
                              call[u].pc = "a_warn" /\ call[u].this = i)]
  /\ alloc_calls' = alloc_calls + 1
  /\ UNCHANGED <<ev_allocator_collect_stats, available_ram, total_value,
                 handles, stats_, single_allocation_warning_count_,
                 total_allocation_warning_count_, mu_, heap, live,
                 single_logged, total_logged, ever_above, cleared,
                 since_clear>>

\* ++single_allocation_warning_count_; LOG(WARNING)
AllocateRawWarn(t) ==
  /\ call[t].pc = "a_warn"
  /\ LET i == call[t].this IN
       /\ single_allocation_warning_count_' =
            [single_allocation_warning_count_ EXCEPT ![i] = @ + 1]
       /\ single_logged' = [single_logged EXCEPT ![i] = @ + 1]
  /\ call' = [call EXCEPT ![t].pc = "a_malloc"]
  /\ UNCHANGED <<ev_allocator_collect_stats, available_ram, large_value,
                 total_value, handles, stats_,
                 total_allocation_warning_count_, mu_, heap, live,
                 total_logged, large_calls, ever_above, cleared, raced,
                 alloc_calls,
                 since_clear>>

\* alignment = 8; p = port::AlignedMalloc(num_bytes, alignment); num_bytes is
\* not read again, and the frame forgets it
\* if (ev_allocator_collect_stats) alloc_size = GetAllocatedSize(p)
AllocateRawMalloc(t) ==
  /\ call[t].pc = "a_malloc"
  /\ \E ptr \in AlignedMalloc(heap, MallocAlignment(call[t].alignment)) :
       LET h1 == IF ptr = NULL THEN heap
                 ELSE [heap EXCEPT ![ptr] = ActualSize(call[t].num_bytes)]
       IN /\ heap' = h1
          /\ call' = [call EXCEPT ![t] =
               [@ EXCEPT !.alignment = MallocAlignment(@),
                         !.num_bytes = 0,
                         !.p = ptr,
                         !.prim_calls = @ + 1,
                         !.prim_ret = ptr,
                         !.alloc_size = IF CollectStats(ev_allocator_collect_stats)
                                        THEN GetAllocatedSize(h1, ptr) ELSE 0,
                         !.pc = IF CollectStats(ev_allocator_collect_stats)
                                THEN "a_lock" ELSE "a_ret"]]
  /\ UNCHANGED <<ev_allocator_collect_stats, available_ram, large_value,
                 total_value, handles, stats_,
                 single_allocation_warning_count_,
                 total_allocation_warning_count_, mu_, live, single_logged,
                 total_logged, large_calls, ever_above, cleared, raced,
                 alloc_calls,
                 since_clear>>

\* the mutex left held at the end of the scope
Release_Forgotten(m, i) == m

\* the end of the scope of mutex_lock l: mu_ is free again
Release(m, i) == [m EXCEPT ![i] = 0]


\* the mutex taken without waiting for its holder
Acquire_NoWait(t, from, to) ==
  /\ call[t].pc = from
  /\ mu_' = [mu_ EXCEPT ![call[t].this] = t]
  /\ call' = [call EXCEPT ![t].pc = to]

\* mutex_lock l(mu_): blocks until the mutex is free
Acquire(t, from, to) ==
  /\ call[t].pc = from
  /\ mu_[call[t].this] = 0
  /\ mu_' = [mu_ EXCEPT ![call[t].this] = t]
  /\ call' = [call EXCEPT ![t].pc = to]

AllocateRawLock(t) ==
  /\ Acquire(t, "a_lock", "a_stats")
  /\ UNCHANGED <<ev_allocator_collect_stats, available_ram, large_value,
                 total_value, handles, stats_,
                 single_allocation_warning_count_,
                 total_allocation_warning_count_, heap, live, single_logged,
                 total_logged, large_calls, ever_above, cleared, raced,
                 alloc_calls,
                 since_clear>>

\* the statistics update and the cumulative warning, then the end of the
\* scope of l
AllocateRawStats(t) ==
  /\ call[t].pc = "a_stats"
  /\ LET i == call[t].this
         s1 == StatsAfterAlloc(stats_[i], call[t].alloc_size)
         tv == TotalAllocationWarningBytes(total_value, available_ram)
         warn == ShouldWarnTotal(s1.bytes_in_use, tv.value,
                                 total_allocation_warning_count_[i])
     IN /\ stats_' = [stats_ EXCEPT ![i] = s1]
        /\ total_value' = tv
        /\ total_allocation_warning_count_' =
             [total_allocation_warning_count_ EXCEPT ![i] =
                IF warn THEN @ + 1 ELSE @]
        /\ total_logged' = [total_logged EXCEPT ![i] =
                IF warn THEN @ + 1 ELSE @]
        /\ ever_above' = [ever_above EXCEPT ![i] =
                @ \/ s1.bytes_in_use > tv.value]
        /\ cleared' = [cleared EXCEPT ![i] = NoClear]
        /\ since_clear' = [since_clear EXCEPT ![i] =
                [count |-> @.count + 1,
                 largest |-> IF call[t].p # NULL /\ heap[call[t].p] > @.largest
                             THEN heap[call[t].p] ELSE @.largest]]
        /\ mu_' = Release(mu_, i)
  /\ call' = [call EXCEPT ![t].pc = "a_ret"]
  /\ UNCHANGED <<ev_allocator_collect_stats, available_ram, large_value,
                 handles, single_allocation_warning_count_, heap, live,
                 single_logged, large_calls, raced, alloc_calls>>

\* return p: from now on the caller holds the pointer
AllocateRawReturn(t) ==
  /\ call[t].pc = "a_ret"
  /\ LET r == AllocateRawResult(call[t]) IN
       live' = IF r = NULL THEN live
               ELSE [live EXCEPT ![r] = call[t].this]
  /\ call' = [call EXCEPT ![t] = Idle]
  /\ UNCHANGED <<ev_allocator_collect_stats, available_ram, large_value,
                 total_value, handles, stats_,
                 single_allocation_warning_count_,
                 total_allocation_warning_count_, mu_, heap, single_logged,
                 total_logged, large_calls, ever_above, cleared, raced,
                 alloc_calls,
                 since_clear>>

\* ---------------------------------------------------------- DeallocateRaw
\* entry: the caller gives up a pointer it holds from this allocator.
\* EVSubAllocator::Free drops its num_bytes argument and calls DeallocateRaw.
\* if (ev_allocator_collect_stats) alloc_size = GetAllocatedSize(ptr)
DeallocateRawStart(t, h, ptr, num_bytes) ==
  /\ call[t].pc = "idle"
  /\ live[ptr] = handles[h].ev
  /\ live' = [live EXCEPT ![ptr] = 0]
  /\ call' = [call EXCEPT ![t] =
       [Idle EXCEPT !.pc = IF CollectStats(ev_allocator_collect_stats)
                           THEN "d_lock" ELSE "d_free",
                    !.via = h, !.this = handles[h].ev, !.p = ptr,
                    !.alloc_size = IF CollectStats(ev_allocator_collect_stats)
                                   THEN FreedSize(heap, ptr, num_bytes)
                                   ELSE 0]]
  /\ UNCHANGED <<ev_allocator_collect_stats, available_ram, large_value,
                 total_value, handles, stats_,
                 single_allocation_warning_count_,
                 total_allocation_warning_count_, mu_, heap, single_logged,
                 total_logged, large_calls, ever_above, cleared, raced,
                 alloc_calls,
                 since_clear>>

DeallocateRawLock(t) ==
  /\ Acquire(t, "d_lock", "d_stats")
  /\ UNCHANGED <<ev_allocator_collect_stats, available_ram, large_value,
                 total_value, handles, stats_,
                 single_allocation_warning_count_,
                 total_allocation_warning_count_, heap, live, single_logged,
                 total_logged, large_calls, ever_above, cleared, raced,
                 alloc_calls,
                 since_clear>>

\* stats_.bytes_in_use -= alloc_size; then the end of the scope of l
DeallocateRawStats(t) ==
  /\ call[t].pc = "d_stats"
  /\ LET i == call[t].this IN
       /\ stats_' = [stats_ EXCEPT ![i] =
                       StatsAfterDealloc(@, call[t].alloc_size)]
       /\ cleared' = [cleared EXCEPT ![i] = NoClear]
       /\ mu_' = Release(mu_, i)
  /\ call' = [call EXCEPT ![t].pc = "d_free"]
  /\ UNCHANGED <<ev_allocator_collect_stats, available_ram, large_value,
                 total_value, handles, single_allocation_warning_count_,
                 total_allocation_warning_count_, heap, live, single_logged,
                 total_logged, large_calls, ever_above, raced, alloc_calls,
                 since_clear>>

\* port::AlignedFree(ptr); return
DeallocateRawFree(t) ==
  /\ call[t].pc = "d_free"
  /\ heap' = [heap EXCEPT ![call[t].p] = 0]
  /\ call' = [call EXCEPT ![t] = Idle]
  /\ UNCHANGED <<ev_allocator_collect_stats, available_ram, large_value,
                 total_value, handles, stats_,
                 single_allocation_warning_count_,
                 total_allocation_warning_count_, mu_, live, single_logged,
                 total_logged, large_calls, ever_above, cleared, raced,
                 alloc_calls,
                 since_clear>>

\* --------------------------------------------------------------- GetStats
\* the value of the optional that GetStats returns while t holds mu_
GetStatsResult(t) == stats_[call[t].this]

\* only an EVAllocator the caller holds itself: the one inside an
\* EVSubAllocator is private to it
GetStatsLock(t, h) ==
  /\ call[t].pc = "idle"
  /\ ~handles[h].sub
  /\ mu_[handles[h].ev] = 0
  /\ mu_' = [mu_ EXCEPT ![handles[h].ev] = t]
  /\ call' = [call EXCEPT ![t] =
       [Idle EXCEPT !.pc = "g_copy", !.via = h, !.this = handles[h].ev]]
  /\ UNCHANGED <<ev_allocator_collect_stats, available_ram, large_value,
                 total_value, handles, stats_,
                 single_allocation_warning_count_,
                 total_allocation_warning_count_, heap, live, single_logged,
                 total_logged, large_calls, ever_above, cleared, raced,
                 alloc_calls,
                 since_clear>>

\* return stats_: the copy is made before l goes out of scope, and the
\* caller receives GetStatsResult(t)
GetStatsCopy(t) ==
  /\ call[t].pc = "g_copy"
  /\ call' = [call EXCEPT ![t] = Idle]
  /\ mu_' = Release(mu_, call[t].this)
  /\ UNCHANGED <<ev_allocator_collect_stats, available_ram, large_value,
                 total_value, handles, stats_,
                 single_allocation_warning_count_,
                 total_allocation_warning_count_, heap, live, single_logged,
                 total_logged, large_calls, ever_above, cleared, raced,
                 alloc_calls,
                 since_clear>>

\* ------------------------------------------------------------- ClearStats
ClearStatsLock(t, h) ==
  /\ call[t].pc = "idle"
  /\ ~handles[h].sub
  /\ mu_[handles[h].ev] = 0
  /\ mu_' = [mu_ EXCEPT ![handles[h].ev] = t]
  /\ call' = [call EXCEPT ![t] =
       [Idle EXCEPT !.pc = "c_body", !.via = h, !.this = handles[h].ev]]
  /\ UNCHANGED <<ev_allocator_collect_stats, available_ram, large_value,
                 total_value, handles, stats_,
                 single_allocation_warning_count_,
                 total_allocation_warning_count_, heap, live, single_logged,
                 total_logged, large_calls, ever_above, cleared, raced,
                 alloc_calls,
                 since_clear>>

ClearStatsBody(t) ==
  /\ call[t].pc = "c_body"
  /\ LET i == call[t].this IN
       /\ stats_' = [stats_ EXCEPT ![i] = StatsAfterClear(@)]
       /\ single_allocation_warning_count_' =
            [single_allocation_warning_count_ EXCEPT ![i] =
               WarningCountAfterClear(@)]
       /\ total_allocation_warning_count_' =
            [total_allocation_warning_count_ EXCEPT ![i] =
               WarningCountAfterClear(@)]
       /\ cleared' = [cleared EXCEPT ![i] = {stats_[i].bytes_in_use}]
       /\ since_clear' = [since_clear EXCEPT ![i] = NoUpdates]
       /\ mu_' = Release(mu_, i)
  /\ call' = [call EXCEPT ![t] = Idle]
  /\ UNCHANGED <<ev_allocator_collect_stats, available_ram, large_value,
                 total_value, handles, heap, live, single_logged,
                 total_logged, large_calls, ever_above, raced, alloc_calls>>

\* ------------------------------------------------------------------- Next
Next ==
  \/ CreateAllocator
  \/ \E n \in NumaNodes : CreateSubAllocator(n)
  \/ \E t \in Threads, h \in Handles, al \in Alignments, n \in Sizes :
       AllocateRawCheck(t, h, al, n, MaxAllocCalls)
  \/ \E t \in Threads : AllocateRawWarn(t)
  \/ \E t \in Threads : AllocateRawMalloc(t)
  \/ \E t \in Threads : AllocateRawLock(t)
  \/ \E t \in Threads : AllocateRawStats(t)
  \/ \E t \in Threads : AllocateRawReturn(t)
  \/ \E t \in Threads, h \in Handles, ptr \in Addrs, n \in Hints :
       DeallocateRawStart(t, h, ptr, n)
  \/ \E t \in Threads : DeallocateRawLock(t)
  \/ \E t \in Threads : DeallocateRawStats(t)
  \/ \E t \in Threads : DeallocateRawFree(t)
  \/ \E t \in Threads, h \in Handles : GetStatsLock(t, h)
  \/ \E t \in Threads : GetStatsCopy(t)
  \/ \E t \in Threads, h \in Handles : ClearStatsLock(t, h)
  \/ \E t \in Threads : ClearStatsBody(t)

Spec == Init /\ [][Next]_vars

\* ----------------------------------------------- one allocator, long runs
\* The state after one CreateAllocator(), from which the four methods are
\* called with the default alignment for long enough that the cap of the
\* single-allocation warnings is reached and passed.
InitOne ==
  /\ ev_allocator_collect_stats \in BOOLEAN
  /\ available_ram = RamBytes
  /\ large_value = NotComputed
  /\ total_value = NotComputed
  /\ handles = <<[sub |-> FALSE, ev |-> 1]>>
  /\ stats_ = [i \in Instances |-> ZeroStats]
  /\ single_allocation_warning_count_ = [i \in Instances |-> 0]
  /\ total_allocation_warning_count_ = [i \in Instances |-> 0]
  /\ mu_ = [i \in Instances |-> 0]
  /\ heap = [a \in Addrs |-> 0]
  /\ live = [a \in Addrs |-> 0]
  /\ call = [t \in Threads |-> Idle]
  /\ single_logged = [i \in Instances |-> 0]
  /\ total_logged = [i \in Instances |-> 0]
  /\ large_calls = [i \in Instances |-> 0]
  /\ ever_above = [i \in Instances |-> FALSE]
  /\ cleared = [i \in Instances |-> NoClear]
  /\ raced = [i \in Instances |-> FALSE]
  /\ alloc_calls = 0
  /\ since_clear = [i \in Instances |-> NoUpdates]

NextOne ==
  \/ \E t \in Threads, h \in Handles, n \in Sizes :
       AllocateRawCheck(t, h, kFixedAlignment, n, MaxLongCalls)
  \/ \E t \in Threads : AllocateRawWarn(t)
  \/ \E t \in Threads : AllocateRawMalloc(t)
  \/ \E t \in Threads : AllocateRawLock(t)
  \/ \E t \in Threads : AllocateRawStats(t)
  \/ \E t \in Threads : AllocateRawReturn(t)
  \/ \E t \in Threads, h \in Handles, ptr \in Addrs, n \in Hints :
       DeallocateRawStart(t, h, ptr, n)
  \/ \E t \in Threads : DeallocateRawLock(t)
  \/ \E t \in Threads : DeallocateRawStats(t)
  \/ \E t \in Threads : DeallocateRawFree(t)
  \/ \E t \in Threads, h \in Handles : GetStatsLock(t, h)
  \/ \E t \in Threads : GetStatsCopy(t)
  \/ \E t \in Threads, h \in Handles : ClearStatsLock(t, h)
  \/ \E t \in Threads : ClearStatsBody(t)

SpecOne == InitOne /\ [][NextOne]_vars


\* ============================================================ properties
RECURSIVE SumSizes(_, _)
SumSizes(h, S) ==
  IF S = {} THEN 0
  ELSE LET a == CHOOSE x \in S : TRUE IN h[a] + SumSizes(h, S \ {a})

\* the sizes the primitive reports for the pointers that instance i has
\* returned and that have not been passed to DeallocateRaw
LiveBytes(i) == SumSizes(heap, {a \in Addrs : live[a] = i})

Created == {handles[h].ev : h \in Handles}

AllocPcs == {"a_warn", "a_malloc", "a_lock", "a_stats", "a_ret"}
DeallocPcs == {"d_lock", "d_stats", "d_free"}

\* no AllocateRaw or DeallocateRaw call of instance i is in progress
Quiescent(i) ==
  \A t \in Threads :
    call[t].this = i => call[t].pc \notin (AllocPcs \cup DeallocPcs)

\* thread t takes a step of a call made through handle h
StepVia(t, h) ==
  /\ call'[t] # call[t]
  /\ (IF call[t].pc = "idle" THEN call'[t].via ELSE call[t].via) = h

\* C1: with statistics collected, whenever no AllocateRaw or DeallocateRaw
\* call of an allocator is in progress, its bytes_in_use is the sum of the
\* sizes the primitive reports for the pointers it returned and that were not
\* freed.
C1_BytesInUseIsLiveSum ==
  ev_allocator_collect_stats =>
    \A i \in Created :
      Quiescent(i) => stats_[i].bytes_in_use = LiveBytes(i)

\* C1 witness: an allocator at rest that holds a block after another one was
\* freed (the peak is above the bytes in use).
C1_Witness ==
  /\ ev_allocator_collect_stats
  /\ \E i \in Created :
       /\ Quiescent(i)
       /\ LiveBytes(i) > 0
       /\ stats_[i].peak_bytes_in_use > stats_[i].bytes_in_use

\* C2: every snapshot that GetStats returns has
\* peak_bytes_in_use >= bytes_in_use.
C2_SnapshotPeakAtLeastInUse ==
  \A t \in Threads :
    call[t].pc = "g_copy" =>
      GetStatsResult(t).peak_bytes_in_use >= GetStatsResult(t).bytes_in_use

\* C2 witness: GetStats returns a snapshot taken right after a ClearStats that
\* found blocks in use, while another thread is inside AllocateRaw.
C2_Witness ==
  /\ ev_allocator_collect_stats
  /\ \E t \in Threads :
       /\ call[t].pc = "g_copy"
       /\ \E b \in cleared[call[t].this] : b > 0
       /\ GetStatsResult(t).bytes_in_use > 0
       /\ \E u \in Threads : call[u].pc \in AllocPcs /\ call[u].this = call[t].this

\* an over-threshold AllocateRaw call of instance i is between its check and
\* its increment
Warning(i) == \E t \in Threads : call[t].pc = "a_warn" /\ call[t].this = i

\* C3 as stated: once more than 5 over-threshold calls were made and none is
\* about to log, exactly 5 single-allocation warnings have been logged.
C3_ExactlyFive ==
  \A i \in Created :
    (large_calls[i] > kMaxSingleAllocationWarnings /\ ~Warning(i)) =>
      single_logged[i] = kMaxSingleAllocationWarnings

\* C3 amended: once more than 5 over-threshold calls were made and none is
\* about to log, at least 5 single-allocation warnings have been logged, and
\* exactly 5 unless some call passed the counter check while another call of
\* the same allocator was between its check and its increment.
C3_AtLeastFiveExactWithoutRace ==
  \A i \in Created :
    (large_calls[i] > kMaxSingleAllocationWarnings /\ ~Warning(i)) =>
      /\ single_logged[i] >= kMaxSingleAllocationWarnings
      /\ ~raced[i] => single_logged[i] = kMaxSingleAllocationWarnings

\* C3 witness: six over-threshold calls were made one after the other.
C3_Witness ==
  \E i \in Created :
    /\ large_calls[i] > kMaxSingleAllocationWarnings
    /\ ~raced[i]
    /\ single_logged[i] = kMaxSingleAllocationWarnings
    /\ \A t \in Threads : call[t].pc = "idle"

\* C4: an allocator logs at most 1 cumulative warning, and has logged exactly
\* 1 once an update has left bytes_in_use above the cumulative threshold.
C4_AtMostOneCumulativeWarning ==
  \A i \in Created :
    /\ total_logged[i] <= 1
    /\ ever_above[i] => total_logged[i] = 1
    /\ (total_value.init /\ stats_[i].bytes_in_use > total_value.value) =>
         total_logged[i] = 1

\* C4 witness: the warning has been logged, usage is back at or below the
\* threshold, and an AllocateRaw is about to take it above the threshold
\* again.
C4_Witness ==
  \E t \in Threads :
    /\ call[t].pc = "a_stats"
    /\ total_logged[call[t].this] = 1
    /\ stats_[call[t].this].bytes_in_use <= total_value.value
    /\ stats_[call[t].this].bytes_in_use + call[t].alloc_size > total_value.value

\* thread t completes the statistics update of an AllocateRaw on instance i
AllocUpdate(t, i) ==
  call[t].pc = "a_stats" /\ call[t].this = i /\ call'[t].pc = "a_ret"

\* C5: a cumulative warning is logged in a step exactly if the step is the
\* first statistics update of an AllocateRaw that leaves bytes_in_use above
\* the cumulative threshold.
C5_WarningAtFirstCrossing ==
  [][\A i \in Instances :
       (total_logged'[i] # total_logged[i]) <=>
         /\ \E t \in Threads : AllocUpdate(t, i)
         /\ stats_'[i].bytes_in_use > total_value'.value
         /\ ~ever_above[i]]_vars

\* C5 witness: the warning has been logged and three or more updates were
\* made, so that some update did not log.
C5_Witness ==
  \E i \in Created :
    /\ total_logged[i] = 1
    /\ stats_[i].num_allocs >= 3
    /\ stats_[i].bytes_in_use > total_value.value
    /\ stats_[i].largest_alloc_size = ActualSize(MaxBytes)

\* thread t completes ClearStats on instance i
ClearStep(t, i) ==
  call[t].pc = "c_body" /\ call[t].this = i /\ call'[t].pc = "idle"

\* C6: ClearStats sets num_allocs and largest_alloc_size to 0 and
\* peak_bytes_in_use to bytes_in_use and leaves bytes_in_use as it was, and a
\* GetStats that follows with no statistics update in between returns these
\* values.
C6_ClearStatsEffect ==
  [][\A t \in Threads :
       /\ \A i \in Instances :
            ClearStep(t, i) =>
              stats_'[i] = [num_allocs |-> 0,
                            bytes_in_use |-> stats_[i].bytes_in_use,
                            peak_bytes_in_use |-> stats_[i].bytes_in_use,
                            largest_alloc_size |-> 0]
       /\ call[t].pc = "g_copy" =>
              \A b \in cleared[call[t].this] :
                GetStatsResult(t) = [num_allocs |-> 0,
                                     bytes_in_use |-> b,
                                     peak_bytes_in_use |-> b,
                                     largest_alloc_size |-> 0]]_vars

\* C6 witness: GetStats returns right after a ClearStats that found blocks in
\* use.
C6_Witness ==
  \E t \in Threads :
    call[t].pc = "g_copy" /\ \E b \in cleared[call[t].this] : b > 0

\* C7 as stated: ClearStats changes no warning counter, and after a
\* ClearStats an allocator that has logged 5 single-allocation warnings or
\* its cumulative warning logs no further one of that kind.
C7_NoWarningAfterCap ==
  [][\A i \in Instances :
       /\ (\E t \in Threads : ClearStep(t, i)) =>
            /\ single_allocation_warning_count_'[i] =
                 single_allocation_warning_count_[i]
            /\ total_allocation_warning_count_'[i] =
                 total_allocation_warning_count_[i]
       /\ cleared[i] # NoClear =>
            /\ single_logged[i] >= kMaxSingleAllocationWarnings =>
                 single_logged'[i] = single_logged[i]
            /\ total_logged[i] >= kMaxTotalAllocationWarnings =>
                 total_logged'[i] = total_logged[i]]_vars

\* C7 amended: ClearStats changes no warning counter; after any ClearStats an
\* allocator that has logged its cumulative warning logs no further one, and
\* one whose single-allocation counter has reached 5 lets no further call
\* pass the check (only a call that passed it before can still log).
C7_ClearStatsKeepsWarningCounters ==
  [][\A i \in Instances :
       /\ (\E t \in Threads : ClearStep(t, i)) =>
            /\ single_allocation_warning_count_'[i] =
                 single_allocation_warning_count_[i]
            /\ total_allocation_warning_count_'[i] =
                 total_allocation_warning_count_[i]
            /\ single_logged'[i] = single_logged[i]
            /\ total_logged'[i] = total_logged[i]
       /\ total_logged[i] >= kMaxTotalAllocationWarnings =>
            total_logged'[i] = total_logged[i]
       /\ single_allocation_warning_count_[i] >= kMaxSingleAllocationWarnings =>
            \A t \in Threads :
              (call'[t].pc = "a_warn" /\ call'[t].this = i) =>
                 call[t].pc = "a_warn"]_vars

\* C7 witness: ClearStats has run on an allocator that had logged 5
\* single-allocation warnings and its cumulative warning.
C7_Witness ==
  \E i \in Created :
    /\ cleared[i] # NoClear
    /\ single_logged[i] >= kMaxSingleAllocationWarnings
    /\ total_logged[i] = kMaxTotalAllocationWarnings

\* C8: whatever alignment the caller requests, the primitive is called with
\* alignment 8 and can return the same pointers; the requested alignment
\* reaches nothing else, so runs that differ only in it pass through the same
\* statistics, counters, warnings and pointers.
C8_AlignmentIgnored ==
  \A t \in Threads :
    /\ call[t].pc \in {"a_lock", "a_stats", "a_ret"} =>
         call[t].alignment = kFixedAlignment
    /\ call[t].pc = "a_malloc" =>
         \A al \in Alignments :
           AlignedMalloc(heap, MallocAlignment(al)) =
             AlignedMalloc(heap, MallocAlignment(call[t].alignment))

\* C8 witness: a call that requested alignment 32 got a pointer that is not
\* a multiple of 32.
C8_Witness ==
  \E t \in Threads :
    /\ call[t].pc = "a_ret"
    /\ call[t].requested = 32
    /\ call[t].p # NULL
    /\ call[t].p % 32 # 0

\* C9: two sub-allocators wrap different EVAllocator objects, and a step of a
\* call through one leaves the statistics and warning counters of the other
\* unchanged.
C9_SubAllocatorsIndependent ==
  [][\A h1 \in Handles, h2 \in Handles :
       (h1 # h2 /\ handles[h1].sub /\ handles[h2].sub) =>
         /\ handles[h1].ev # handles[h2].ev
         /\ \A t \in Threads :
              StepVia(t, h1) =>
                /\ stats_'[handles[h2].ev] = stats_[handles[h2].ev]
                /\ single_allocation_warning_count_'[handles[h2].ev] =
                     single_allocation_warning_count_[handles[h2].ev]
                /\ total_allocation_warning_count_'[handles[h2].ev] =
                     total_allocation_warning_count_[handles[h2].ev]]_vars

\* C9 witness: of two sub-allocators one has allocated, warned and freed and
\* the other has all its statistics and counters at 0.
C9_Witness ==
  /\ ev_allocator_collect_stats
  /\ Len(handles) = 2
  /\ handles[1].sub /\ handles[2].sub
  /\ stats_[handles[1].ev].num_allocs = 2
  /\ stats_[handles[1].ev].peak_bytes_in_use > stats_[handles[1].ev].bytes_in_use
  /\ single_allocation_warning_count_[handles[1].ev] > 0
  /\ stats_[handles[2].ev] = ZeroStats
  /\ single_allocation_warning_count_[handles[2].ev] = 0

\* C10: an AllocateRaw call has called the primitive exactly once when it
\* returns, and the caller receives exactly what the primitive returned,
\* NULL included.
C10_ReturnsPrimitiveResult ==
  [][\A t \in Threads :
       (call[t].pc = "a_ret" /\ call'[t].pc = "idle") =>
         /\ call[t].prim_calls = 1
         /\ live' = IF call[t].prim_ret = NULL THEN live
                    ELSE [live EXCEPT ![call[t].prim_ret] = call[t].this]]_vars

\* C10 witness: a call that logged a warning returns the NULL that the
\* primitive returned.
C10_Witness ==
  \E t \in Threads :
    /\ call[t].pc = "a_ret"
    /\ call[t].prim_ret = NULL
    /\ single_logged[call[t].this] > 0


\* ============================================ one allocator, its environment
\* no call is in progress on any thread
AllIdle == \A t \in Threads : call[t].pc = "idle"

\* the configuration mechanism outside this file gives the statistics toggle
\* another value; it does so between calls
SetCollectStats(b) ==
  /\ AllIdle
  /\ b # ev_allocator_collect_stats
  /\ ev_allocator_collect_stats' = b
  /\ UNCHANGED <<available_ram, large_value, total_value, handles, stats_,
                 single_allocation_warning_count_,
                 total_allocation_warning_count_, mu_, heap, live, call,
                 single_logged, total_logged, large_calls, ever_above,
                 cleared, raced, alloc_calls, since_clear>>

\* what port::AvailableRam() can report
RamValues == {RamBytes, RamBytes + RamBytes}

\* the memory the system has available changes
AvailableRamChanges(r) ==
  /\ r # available_ram
  /\ available_ram' = r
  /\ UNCHANGED <<ev_allocator_collect_stats, large_value, total_value,
                 handles, stats_, single_allocation_warning_count_,
                 total_allocation_warning_count_, mu_, heap, live, call,
                 single_logged, total_logged, large_calls, ever_above,
                 cleared, raced, alloc_calls, since_clear>>

\* The four methods of one allocator, called while the toggle and the
\* available memory change.
NextEnv ==
  \/ \E b \in BOOLEAN : SetCollectStats(b)
  \/ \E r \in RamValues : AvailableRamChanges(r)
  \/ \E t \in Threads, h \in Handles, n \in Sizes :
       AllocateRawCheck(t, h, kFixedAlignment, n, MaxAllocCalls)
  \/ \E t \in Threads : AllocateRawWarn(t)
  \/ \E t \in Threads : AllocateRawMalloc(t)
  \/ \E t \in Threads : AllocateRawLock(t)
  \/ \E t \in Threads : AllocateRawStats(t)
  \/ \E t \in Threads : AllocateRawReturn(t)
  \/ \E t \in Threads, h \in Handles, ptr \in Addrs, n \in Hints :
       DeallocateRawStart(t, h, ptr, n)
  \/ \E t \in Threads : DeallocateRawLock(t)
  \/ \E t \in Threads : DeallocateRawStats(t)
  \/ \E t \in Threads : DeallocateRawFree(t)
  \/ \E t \in Threads, h \in Handles : GetStatsLock(t, h)
  \/ \E t \in Threads : GetStatsCopy(t)
  \/ \E t \in Threads, h \in Handles : ClearStatsLock(t, h)
  \/ \E t \in Threads : ClearStatsBody(t)

SpecEnv == InitOne /\ [][NextEnv]_vars

ComputedOnce(cache, cache1, tenths) ==
  /\ cache1.init <=> cache1.queries = 1
  /\ ~cache1.init => cache1 = NotComputed
  /\ cache.init => cache1 = cache
  /\ (~cache.init /\ cache1.init) =>
       cache1.value = ThresholdBytes(available_ram, tenths)

\* C12: LargeAllocationWarningBytes and TotalAllocationWarningBytes each query
\* the available memory exactly once, in their first call, and every later
\* call returns that value, also after the available memory has changed; every
\* AllocateRaw calls the first accessor and every statistics update the
\* second.
C12_ThresholdsComputedOnce ==
  [][/\ ComputedOnce(large_value, large_value',
                     kLargeAllocationWarningThresholdTenths)
     /\ ComputedOnce(total_value, total_value',
                     kTotalAllocationWarningThresholdTenths)
     /\ \A t \in Threads :
          /\ (call[t].pc = "idle" /\ call'[t].pc \in {"a_warn", "a_malloc"})
               => large_value'.init
          /\ (call[t].pc = "a_stats" /\ call'[t].pc = "a_ret")
               => total_value'.init]_vars

\* C12 witness: after the available memory changed, a second AllocateRaw has
\* made its check and a statistics update has been made, and both thresholds
\* are still the fractions of the memory available at the first calls.
C12_Witness ==
  /\ alloc_calls = MaxAllocCalls
  /\ \E t \in Threads : call[t].pc \in {"a_warn", "a_malloc"}
  /\ large_value.init /\ large_value.queries = 1
  /\ large_value.value #
       ThresholdBytes(available_ram, kLargeAllocationWarningThresholdTenths)
  /\ total_value.init /\ total_value.queries = 1
  /\ total_value.value #
       ThresholdBytes(available_ram, kTotalAllocationWarningThresholdTenths)

\* C13: a free made through EVSubAllocator::Free(ptr, num_bytes), whatever
\* num_bytes is, does what DeallocateRaw(ptr) does on the wrapped allocator:
\* with statistics collected the size it takes is the one the primitive
\* reports for ptr, bytes_in_use decreases by exactly that size and no other
\* statistic changes, and the block goes back to the primitive.
C13_FreeIgnoresNumBytes ==
  [][\A t \in Threads :
       /\ (call[t].pc = "idle" /\ call'[t].pc \in DeallocPcs) =>
            call'[t] =
              [Idle EXCEPT
                 !.pc = IF ev_allocator_collect_stats
                        THEN "d_lock" ELSE "d_free",
                 !.via = call'[t].via,
                 !.this = handles[call'[t].via].ev,
                 !.p = call'[t].p,
                 !.alloc_size = IF ev_allocator_collect_stats
                                THEN heap[call'[t].p] ELSE 0]
       /\ (call[t].pc = "d_stats" /\ call'[t].pc = "d_free") =>
            stats_' = [stats_ EXCEPT ![call[t].this].bytes_in_use =
                         @ - heap[call[t].p]]
       /\ (call[t].pc = "d_free" /\ call'[t].pc = "idle") =>
            heap' = [heap EXCEPT ![call[t].p] = 0]]_vars

\* C13 witness: with statistics collected, a Free through a sub-allocator has
\* made its subtraction and left bytes_in_use equal to the sizes of the blocks
\* the callers still hold.
C13_Witness ==
  /\ ev_allocator_collect_stats
  /\ \E t \in Threads :
       /\ call[t].pc = "d_free"
       /\ handles[call[t].via].sub
       /\ call[t].alloc_size > 0
       /\ \A u \in Threads \ {t} : call[u].pc = "idle"
       /\ LiveBytes(call[t].this) > 0
       /\ stats_[call[t].this].bytes_in_use = LiveBytes(call[t].this)

\* ======================================= one allocator, allocations only
\* AllocateRaw called on one allocator often enough that the cap of the
\* single-allocation warnings could be passed by more than the threads that
\* can race at it.
NextWarn ==
  \/ \E t \in Threads, h \in Handles, n \in Sizes :
       AllocateRawCheck(t, h, kFixedAlignment, n, MaxWarnCalls)
  \/ \E t \in Threads : AllocateRawWarn(t)
  \/ \E t \in Threads : AllocateRawMalloc(t)
  \/ \E t \in Threads : AllocateRawLock(t)
  \/ \E t \in Threads : AllocateRawStats(t)
  \/ \E t \in Threads : AllocateRawReturn(t)

SpecWarn == InitOne /\ [][NextWarn]_vars

\* C14: with NumThreads threads calling AllocateRaw on one allocator, neither
\* single_allocation_warning_count_ nor the number of single-allocation
\* warnings logged ever exceeds 5 + (NumThreads - 1).
C14_WarningsBoundedByThreads ==
  \A i \in Created :
    /\ single_allocation_warning_count_[i]
         <= kMaxSingleAllocationWarnings + (NumThreads - 1)
    /\ single_logged[i] <= kMaxSingleAllocationWarnings + (NumThreads - 1)

\* C14 witness: the bound is reached, every thread having passed the check
\* at the last count below the cap, while AllocateRaw calls are still being
\* made.
C14_Witness ==
  \E i \in Created :
    /\ single_logged[i] = kMaxSingleAllocationWarnings + (NumThreads - 1)
    /\ single_allocation_warning_count_[i] = single_logged[i]
    /\ large_calls[i] > single_logged[i]

\* C15: an AllocateRaw call increments single_allocation_warning_count_ and
\* logs a single-allocation warning if and only if, at its check, num_bytes is
\* strictly above the large-allocation threshold and the counter is below 5:
\* the check sends the call to the increment exactly in that case, the
\* increment and the log are made together and by nothing else, and neither
\* the statistics toggle nor the result of the primitive, which comes later,
\* takes part.
C15_SingleWarningIffOverThresholdBelowCap ==
  [][/\ \A t \in Threads :
          /\ (call[t].pc = "idle" /\ call'[t].pc \in AllocPcs) =>
               (call'[t].pc = "a_warn" <=>
                  /\ call'[t].num_bytes > large_value'.value
                  /\ single_allocation_warning_count_[call'[t].this]
                       < kMaxSingleAllocationWarnings)
          /\ (call[t].pc # "idle" /\ call'[t] # call[t]) =>
               call'[t].pc # "a_warn"
          /\ (call[t].pc = "a_warn" /\ call'[t] # call[t]) =>
               /\ call'[t].pc = "a_malloc"
               /\ single_allocation_warning_count_'[call[t].this] =
                    single_allocation_warning_count_[call[t].this] + 1
               /\ single_logged'[call[t].this] =
                    single_logged[call[t].this] + 1
     /\ \A i \in Created :
          (\/ single_allocation_warning_count_'[i] #
                single_allocation_warning_count_[i]
           \/ single_logged'[i] # single_logged[i]) =>
            \E t \in Threads :
              /\ call[t].pc = "a_warn" /\ call[t].this = i
              /\ call'[t] # call[t]]_vars

\* C15 witness: a request of exactly the threshold size has passed the check
\* with the counter at 0 and goes to the primitive without a warning, while
\* another call that was over the threshold has logged and got NULL.
C15_Witness ==
  \E t \in Threads, u \in Threads :
    /\ call[t].pc = "a_malloc"
    /\ large_value.init
    /\ call[t].num_bytes = large_value.value
    /\ call[u].pc = "a_ret" /\ call[u].prim_ret = NULL
    /\ single_logged[call[t].this] = 1
    /\ alloc_calls = 2

LockPcs == {"a_lock", "a_stats", "d_lock", "d_stats"}

\* C16: while statistics collection is disabled, a step of an AllocateRaw or
\* DeallocateRaw call never waits for or holds the lock and leaves the lock,
\* the four statistics, the cumulative warning counter and the cumulative
\* warnings logged as they were.
C16_DisabledStatsFrame ==
  [][~ev_allocator_collect_stats =>
       \A t \in Threads :
         (/\ call'[t] # call[t]
          /\ \/ call[t].pc \in AllocPcs \cup DeallocPcs
             \/ call'[t].pc \in AllocPcs \cup DeallocPcs) =>
           /\ call[t].pc \notin LockPcs
           /\ call'[t].pc \notin LockPcs
           /\ mu_' = mu_
           /\ stats_' = stats_
           /\ total_allocation_warning_count_' =
                total_allocation_warning_count_
           /\ total_logged' = total_logged]_vars

\* C16 witness: statistics were collected for a first allocation and then
\* disabled; a second, over-threshold AllocateRaw has logged its warning and
\* got a block, and the statistics still show one allocation.
C16_Witness ==
  /\ ~ev_allocator_collect_stats
  /\ \E t \in Threads :
       /\ call[t].pc = "a_ret"
       /\ call[t].p # NULL
       /\ stats_[call[t].this].num_allocs = 1
       /\ stats_[call[t].this].bytes_in_use = ActualSize(MaxBytes)
       /\ single_allocation_warning_count_[call[t].this] = 2
       /\ SumSizes(heap, Addrs) > stats_[call[t].this].bytes_in_use

\* C17: with statistics collected, num_allocs is the number of AllocateRaw
\* calls whose statistics update was made since the last ClearStats (or since
\* construction), calls that got NULL included, and largest_alloc_size is the
\* largest actual size among those calls, 0 if there are none.
C17_NumAllocsAndLargestSinceClear ==
  ev_allocator_collect_stats =>
    \A i \in Created :
      /\ stats_[i].num_allocs = since_clear[i].count
      /\ stats_[i].largest_alloc_size = since_clear[i].largest

\* C17 witness: after a ClearStats that found blocks in use, one AllocateRaw
\* got NULL from the primitive and made its update: num_allocs is 1 and
\* largest_alloc_size is 0.
C17_Witness ==
  /\ ev_allocator_collect_stats
  /\ \E t \in Threads :
       /\ call[t].pc = "a_ret"
       /\ call[t].prim_ret = NULL
       /\ \A u \in Threads \ {t} : call[u].pc = "idle"
       /\ stats_[call[t].this].num_allocs = 1
       /\ stats_[call[t].this].largest_alloc_size = 0
       /\ stats_[call[t].this].bytes_in_use > 0
       /\ since_clear[call[t].this].count = 1

\* the places where a call reads or writes stats_ or
\* total_allocation_warning_count_
CriticalPcs == {"a_stats", "d_stats", "g_copy", "c_body"}

\* C18: a thread reads or writes the AllocatorStats fields and the cumulative
\* warning counter only while it holds the lock of that allocator, the lock
\* has one holder at a time, and the thread that reads or writes
\* single_allocation_warning_count_ holds no lock.
C18_LockDiscipline ==
  [][/\ \A t \in Threads :
          call[t].pc \in CriticalPcs => mu_[call[t].this] = t
     /\ \A t \in Threads, u \in Threads :
          (/\ t # u
           /\ call[t].pc \in CriticalPcs
           /\ call[u].pc \in CriticalPcs) => call[t].this # call[u].this
     /\ \A i \in Created :
          (\/ stats_'[i] # stats_[i]
           \/ total_allocation_warning_count_'[i] #
                total_allocation_warning_count_[i]) =>
            \E t \in Threads :
              /\ call[t].pc \in CriticalPcs
              /\ call[t].this = i
              /\ mu_[i] = t
              /\ call'[t] # call[t]
     /\ \A t \in Threads :
          (\/ call[t].pc = "idle" /\ call'[t].pc \in AllocPcs
           \/ call[t].pc = "a_warn" /\ call'[t] # call[t]) =>
            \A i \in Instances : mu_[i] # t /\ mu_'[i] # t]_vars

\* C18 witness: one thread is inside the statistics update of AllocateRaw and
\* holds the lock, while another thread's call on the same allocator is about
\* to increment single_allocation_warning_count_ without it.
C18_Witness ==
  \E t \in Threads, u \in Threads :
    /\ call[t].pc = "a_stats"
    /\ mu_[call[t].this] = t
    /\ call[u].pc = "a_warn"
    /\ call[u].this = call[t].this

\* the blocks the primitive holds for instance i: those its callers hold, and
\* those of its calls in progress that the primitive has handed out and not
\* yet taken back
HeldBlocks(i) ==
  {a \in Addrs :
     \/ live[a] = i
     \/ \E t \in Threads :
          /\ call[t].this = i
          /\ call[t].p = a
          /\ call[t].pc \in {"a_lock", "a_stats", "a_ret"} \cup DeallocPcs}

HeldBytes(i) == SumSizes(heap, HeldBlocks(i))

\* C19: with statistics collected, in every reachable state, in the middle of
\* calls too, bytes_in_use of an allocator is at most the total actual size
\* of the blocks the primitive currently holds for it.
C19_BytesInUseAtMostHeld ==
  ev_allocator_collect_stats =>
    \A i \in Created : stats_[i].bytes_in_use <= HeldBytes(i)

\* C19 witness: one call has its block and has not yet added it, another has
\* subtracted its block and not yet freed it: bytes_in_use is 0 and the
\* primitive holds two blocks for the allocator.
C19_Witness ==
  /\ ev_allocator_collect_stats
  /\ \E t \in Threads, u \in Threads :
       /\ call[t].pc = "a_lock" /\ call[t].p # NULL
       /\ call[u].pc = "d_free" /\ call[u].this = call[t].this
       /\ stats_[call[t].this].bytes_in_use = 0
       /\ HeldBytes(call[t].this) = ActualSize(1) + ActualSize(MaxBytes)

\* ================================================= fair scheduling
\* a step of a call of thread t that needs nothing from another thread: the
\* primitives return and the bodies of the critical sections end
ThreadStep(t) ==
  \/ AllocateRawWarn(t)
  \/ AllocateRawMalloc(t)
  \/ AllocateRawStats(t)
  \/ AllocateRawReturn(t)
  \/ DeallocateRawStats(t)
  \/ DeallocateRawFree(t)
  \/ GetStatsCopy(t)
  \/ ClearStatsBody(t)

\* thread t, waiting in mutex_lock, gets the lock
LockStep(t) == AllocateRawLock(t) \/ DeallocateRawLock(t)

\* every thread is scheduled, and a thread that waits for a lock that is
\* free again and again gets it
Fairness ==
  \A t \in Threads : WF_vars(ThreadStep(t)) /\ SF_vars(LockStep(t))

SpecLive == InitOne /\ [][NextEnv]_vars /\ Fairness

====
